---------------------------- MODULE Spec2Model ----------------------------
(***************************************************************************)
(* A model of the safepy REST client: the URL builder and its request      *)
(* dispatch (safe/url.py), the response interpreter and its error          *)
(* normalisation (safe/url.py), the schema node model (safepy/nodes.py)    *)
(* and the proxy compiler (safepy/api.py).                                 *)
(*                                                                         *)
(* Python values are tagged records: [t |-> "str", v |-> "abc"],           *)
(* [t |-> "num", v |-> 5], [t |-> "bool", v |-> TRUE], [t |-> "list",      *)
(* v |-> <<...>>], [t |-> "dict", v |-> << <<key, value>>, ... >>] (the    *)
(* entries in the dictionary's iteration order) and None.  A call's        *)
(* outcome is [kind |-> "return", value |-> ...] or [kind |-> "raise",     *)
(* exc |-> <exception class>, msg |-> <its message>].                      *)
(***************************************************************************)
EXTENDS Integers, Sequences, FiniteSets, TLC

VARIABLES
    builders,   \* the UrlBuilder objects alive, by identity (index)
    proxies,    \* the compiled proxy objects alive, by identity (index)
    created,    \* history: each builder as it was when it was created
    ncalls,     \* the number of calls made so far
    call,       \* the last call made on a builder or a proxy
    log,        \* the HTTP requests that call issued, in order
    ret,        \* the outcome of that call
    r,          \* the HTTP response handed to unpack_rest_response
    unpacked,   \* the outcome of unpack_rest_response(r)
    name,       \* the name handed to make_typename
    typename,   \* the outcome of make_typename(name)
    schema_node,\* the schema object node handed to compile_object
    compiled    \* the outcome of compile_object(schema_node, ub)

progVars == <<builders, proxies, created, ncalls, call, log, ret>>
respVars == <<r, unpacked>>
nameVars == <<name, typename>>
compVars == <<schema_node, compiled>>
vars == <<builders, proxies, created, ncalls, call, log, ret, r, unpacked, name,
          typename, schema_node, compiled>>

---------------------------------------------------------------------------
(* Python values *)

None == [t |-> "null"]
JStr(s) == [t |-> "str", v |-> s]
JNum(n) == [t |-> "num", v |-> n]
JBool(b) == [t |-> "bool", v |-> b]
JList(xs) == [t |-> "list", v |-> xs]
JDict(kvs) == [t |-> "dict", v |-> kvs]

Pending == [kind |-> "pending"]
Return(x) == [kind |-> "return", value |-> x]
Raise(e, m) == [kind |-> "raise", exc |-> e, msg |-> m]

\* bool(x): None, "", 0, False, [] and {} are false
Truthy(x) ==
    CASE x.t = "null" -> FALSE
      [] x.t = "str" -> x.v # ""
      [] x.t = "num" -> x.v # 0
      [] x.t = "bool" -> x.v
      [] x.t = "list" -> x.v # <<>>
      [] x.t = "dict" -> x.v # <<>>
      [] OTHER -> TRUE

\* key in d
HasKey(d, k) == \E i \in 1..Len(d.v) : d.v[i][1] = k

\* d.get(k): the value under k, None when k is absent
DictGet(d, k) ==
    IF HasKey(d, k)
    THEN d.v[CHOOSE i \in 1..Len(d.v) : d.v[i][1] = k][2]
    ELSE None

\* str.format's rendering of a string, a number or None
Fmt(x) ==
    CASE x.t = "str" -> x.v
      [] x.t = "num" -> ToString(x.v)
      [] x.t = "null" -> "None"
      [] OTHER -> "?"

\* sep.join(xs) for a sequence of strings
RECURSIVE StrJoin(_, _)
StrJoin(sep, xs) ==
    IF xs = <<>> THEN ""
    ELSE IF Len(xs) = 1 THEN xs[1]
    ELSE xs[1] \o sep \o StrJoin(sep, Tail(xs))

---------------------------------------------------------------------------
(* safe/url.py: error normalisation *)

\* One yielded message of flatten_error: the joined line, or the TypeError
\* that ': '.join raises on a true value that is no string.
FlattenLeaf(fullpath, value) ==
    IF Truthy(value)
    THEN IF value.t = "str"
         THEN [err |-> FALSE, s |-> fullpath \o ": " \o value.v]
         ELSE [err |-> TRUE, s |-> ""]
    ELSE [err |-> FALSE, s |-> fullpath \o ": unknown error"]

RECURSIVE FlattenEntries(_, _)
FlattenEntries(kvs, parent) ==
    IF kvs = <<>> THEN <<>>
    ELSE LET path == kvs[1][1]
             value == kvs[1][2]
             fullpath == IF parent # "" THEN parent \o "/" \o path ELSE path
             here == IF value.t = "dict"
                     THEN FlattenEntries(value.v, fullpath)
                     ELSE <<FlattenLeaf(fullpath, value)>>
         IN here \o FlattenEntries(Tail(kvs), parent)

flatten_error(error, parent) == FlattenEntries(error.v, parent)

\* '\n'.join(messages): TypeError when an item is no string
JoinLines(lines) ==
    IF \E i \in 1..Len(lines) : lines[i].err
    THEN Raise("TypeError", "")
    ELSE Return(StrJoin("\n", [i \in 1..Len(lines) |-> lines[i].s]))

\* '\n'.join(error) for a list error
JoinList(error) ==
    JoinLines([i \in 1..Len(error.v) |->
                  IF error.v[i].t = "str"
                  THEN [err |-> FALSE, s |-> error.v[i].v]
                  ELSE [err |-> TRUE, s |-> ""]])

\* error['obj'][0], then the "In use by" message
InUseMessage(error) ==
    IF ~HasKey(error, "obj") THEN Raise("KeyError", "obj")
    ELSE LET objs == DictGet(error, "obj")
         IN IF objs.t # "list" THEN Raise("TypeError", "")
            ELSE IF objs.v = <<>> THEN Raise("IndexError", "")
            ELSE LET obj == objs.v[1]
                 IN IF obj.t # "dict" THEN Raise("TypeError", "")
                    ELSE IF ~HasKey(obj, "obj_type") THEN Raise("KeyError", "obj_type")
                    ELSE IF ~HasKey(obj, "obj_name") THEN Raise("KeyError", "obj_name")
                    ELSE Return("In use by " \o Fmt(DictGet(obj, "obj_type"))
                                \o " '" \o Fmt(DictGet(obj, "obj_name")) \o "'")

\* ComputedMessage with the msg field consulted before the message field
ComputedMessage_MsgFirst(error) ==
    CASE error.t = "str" -> Return(error.v)
      [] error.t = "list" -> JoinList(error)
      [] error.t = "dict" ->
            LET message == DictGet(error, "message")
            IN IF Truthy(DictGet(error, "msg")) THEN InUseMessage(error)
               ELSE IF Truthy(message) THEN Return(Fmt(message))
               ELSE JoinLines(flatten_error(error, ""))
      [] OTHER -> [kind |-> "bail"]

\* The message raise_api_error computes from the error field (lines 85-103):
\* a returned string, a raised exception, or "bail" when the shape is not
\* understood.
ComputedMessage(error) ==
    CASE error.t = "str" -> Return(error.v)
      [] error.t = "list" -> JoinList(error)
      [] error.t = "dict" ->
            LET message == DictGet(error, "message")
            IN IF Truthy(message) THEN Return(Fmt(message))
               ELSE IF Truthy(DictGet(error, "msg")) THEN InUseMessage(error)
               ELSE JoinLines(flatten_error(error, ""))
      [] OTHER -> [kind |-> "bail"]

\* The name rule of raise_api_error (lines 105-113)
ConflictMessage(name_) ==
    "The key '" \o Fmt(name_) \o "' is in conflicts with the system"

ApiErrorMessage(message, name_) ==
    IF message = "Conflict" THEN ConflictMessage(name_)
    ELSE IF Truthy(name_) THEN "Error for " \o Fmt(name_) \o ": " \o message
    ELSE message

\* raise_api_error(r): raises, or returns (None) to fall back to the generic
\* client error.
raise_api_error(resp) ==
    LET data == resp.body
    IN CASE data.t = "invalid" -> Raise("ValueError", "")
         [] data.t = "str" -> Raise("APIError", data.v)
         [] data.t = "dict" ->
               LET m == ComputedMessage(DictGet(data, "error"))
               IN CASE m.kind = "bail" -> Return(None)
                    [] m.kind = "raise" -> m
                    [] OTHER ->
                        Raise("APIError",
                              ApiErrorMessage(m.value, DictGet(data, "name")))
         [] OTHER -> Raise("AttributeError", "get")

ClientErrorMessage(resp) ==
    ToString(resp.status_code) \o " Client Error: " \o resp.reason
        \o " for url: " \o resp.url

ServerErrorMessage(resp) ==
    ToString(resp.status_code) \o " Server Error: " \o resp.reason
        \o " for url: " \o resp.url

IsClientError(code) == 400 <= code /\ code < 500
IsServerError(code) == 500 <= code /\ code < 600

\* raise_for_status that returns when raise_api_error bails, instead of
\* going on to the generic client error
raise_for_status_NoFallback(resp) ==
    IF IsClientError(resp.status_code)
    THEN IF resp.content_type.t = "null" THEN Raise("KeyError", "content-type")
         ELSE IF resp.content_type.v = "application/json"
              THEN raise_api_error(resp)
              ELSE Raise("HTTPError", ClientErrorMessage(resp))
    ELSE IF IsServerError(resp.status_code)
    THEN Raise("HTTPError", ServerErrorMessage(resp))
    ELSE Return(None)

raise_for_status(resp) ==
    IF IsClientError(resp.status_code)
    THEN IF resp.content_type.t = "null" THEN Raise("KeyError", "content-type")
         ELSE LET e == IF resp.content_type.v = "application/json"
                       THEN raise_api_error(resp)
                       ELSE Return(None)
              IN IF e.kind = "raise" THEN e
                 ELSE Raise("HTTPError", ClientErrorMessage(resp))
    ELSE IF IsServerError(resp.status_code)
    THEN Raise("HTTPError", ServerErrorMessage(resp))
    ELSE Return(None)

\* APIResponse.__init__
APIResponse(resp) ==
    IF resp.content_type.t = "null" THEN Raise("KeyError", "content-type")
    ELSE LET mimetype == resp.content_type.v
         IN IF mimetype = "application/json"
            THEN IF resp.body.t = "invalid" THEN Raise("ValueError", "")
                 ELSE Return([mimetype |-> mimetype, content |-> resp.body])
            ELSE IF mimetype = "application/x-gzip"
            THEN Return([mimetype |-> mimetype, content |-> resp.body])
            ELSE Raise("APIError",
                       "Unsupported content type: '" \o mimetype \o "'")

unpack_rest_response(resp) ==
    LET s == raise_for_status(resp)
    IN IF s.kind = "raise" THEN s ELSE APIResponse(resp)

---------------------------------------------------------------------------
(* safepy/api.py: identifier sanitisation.  A name is None or a unicode     *)
(* string, held as [t |-> "str", v |-> <its characters>].                   *)

Lower == {"a", "b", "c", "d", "e", "f", "g", "h", "i", "j", "k", "l", "m",
          "n", "o", "p", "q", "r", "s", "t", "u", "v", "w", "x", "y", "z"}
Upper == {"A", "B", "C", "D", "E", "F", "G", "H", "I", "J", "K", "L", "M",
          "N", "O", "P", "Q", "R", "S", "T", "U", "V", "W", "X", "Y", "Z"}
Digits == {"0", "1", "2", "3", "4", "5", "6", "7", "8", "9"}
Punct == {" ", "!", "-", ".", "/", "_", "'", ":"}
Ascii == Lower \cup Upper \cup Digits \cup Punct

\* keyword.kwlist of Python 2
Keywords ==
    {<<"a","n","d">>, <<"a","s">>, <<"a","s","s","e","r","t">>,
     <<"b","r","e","a","k">>, <<"c","l","a","s","s">>,
     <<"c","o","n","t","i","n","u","e">>, <<"d","e","f">>, <<"d","e","l">>,
     <<"e","l","i","f">>, <<"e","l","s","e">>, <<"e","x","c","e","p","t">>,
     <<"e","x","e","c">>, <<"f","i","n","a","l","l","y">>, <<"f","o","r">>,
     <<"f","r","o","m">>, <<"g","l","o","b","a","l">>, <<"i","f">>,
     <<"i","m","p","o","r","t">>, <<"i","n">>, <<"i","s">>,
     <<"l","a","m","b","d","a">>, <<"n","o","t">>, <<"o","r">>,
     <<"p","a","s","s">>, <<"p","r","i","n","t">>, <<"r","a","i","s","e">>,
     <<"r","e","t","u","r","n">>, <<"t","r","y">>, <<"w","h","i","l","e">>,
     <<"w","i","t","h">>, <<"y","i","e","l","d">>}

RestObject == <<"R","e","s","t","O","b","j","e","c","t">>

\* F applied to the value of x (x is evaluated once)
Bind(x, F(_)) == CHOOSE y \in {F(v) : v \in {x}} : TRUE

\* the characters of cs that satisfy Keep, in order
RECURSIVE FilterChars(_, _)
FilterChars(cs, Keep) ==
    IF cs = <<>> THEN <<>>
    ELSE (IF Head(cs) \in Keep THEN <<Head(cs)>> ELSE <<>>)
             \o FilterChars(Tail(cs), Keep)

\* name.encode('ascii', 'ignore'): the non-ASCII characters are dropped
EncodeAsciiIgnore(cs) == FilterChars(cs, Ascii)

\* name.replace(' ', '')
RemoveSpaces(cs) == FilterChars(cs, Ascii \ {" "})

\* re.sub('[^a-zA-Z0-9_]', '_', name)
IdentChars == Lower \cup Upper \cup Digits \cup {"_"}
SubNonIdent(cs) ==
    [i \in 1..Len(cs) |-> IF cs[i] \in IdentChars THEN cs[i] ELSE "_"]

\* lines 26-28: the sanitised form of a name
Sanitize(cs) == SubNonIdent(RemoveSpaces(EncodeAsciiIgnore(cs)))

\* c.isalnum() or c == '_'
IsAlnumOrUnderscore(c) == c \in IdentChars

make_typename(name_) ==
    IF name_.t = "null" THEN Return(RestObject)
    ELSE Bind(Sanitize(name_.v), LAMBDA n :
            IF ~(\A i \in 1..Len(n) : IsAlnumOrUnderscore(n[i]))
            THEN Raise("ValueError", "can only contain alphanumeric characters and underscores")
            ELSE IF n = <<>> THEN Raise("IndexError", "string index out of range")
            ELSE IF n[1] \in Digits
            THEN Raise("ValueError", "cannot start with a number")
            ELSE IF n \in Keywords
            THEN Raise("ValueError", "cannot be a keyword")
            ELSE Return(n))

---------------------------------------------------------------------------
(* Responses the interpreter is given *)

MaxEntries == 3

TreeKeys == {"a", "b"}
Leaves == {JStr("bad value"), JStr(""), None, JNum(5)}

Keys(kvs) == {kvs[i][1] : i \in 1..Len(kvs)}

\* every dictionary (as its entries) over TreeKeys and Leaves with at most n
\* entries, the nested ones counted
RECURSIVE DictsUpTo(_)
DictsUpTo(n) ==
    IF n = 0 THEN {<<>>}
    ELSE {<<>>} \cup
         UNION {UNION {{<<<<k, val>>>> \o rest :
                           val \in Leaves \cup {JDict(d) : d \in DictsUpTo(m)},
                           rest \in {x \in DictsUpTo(n - 1 - m) : k \notin Keys(x)}} :
                       m \in 0..(n - 1)} :
                k \in TreeKeys}

Opt(k, vals) == {<<>>} \cup {<<<<k, val>>>> : val \in vals}

TrunkObj == JDict(<<<<"obj_type", JStr("Trunk")>>, <<"obj_name", JStr("T1")>>>>)

\* error objects around the message / msg / obj fields
MsgDicts ==
    {JDict(m \o g \o o \o x) :
        m \in Opt("message", {None, JStr(""), JStr("boom"), JStr("Conflict")}),
        g \in Opt("msg", {JStr(""), JStr("x")}),
        o \in Opt("obj", {JList(<<>>), JList(<<TrunkObj>>),
                          JList(<<JDict(<<<<"obj_type", JStr("Trunk")>>>>)>>)}),
        x \in Opt("a", {JStr("bad value")})}

ExampleError ==
    JDict(<<<<"a", JDict(<<<<"b", JStr("bad value")>>,
                           <<"c", JDict(<<<<"d", None>>>>)>>>>)>>>>)

ErrorShapes ==
    {JStr("Conflict"), JStr("boom"), JStr("")}
    \cup {JList(<<>>), JList(<<JStr("e1"), JStr("e2")>>),
          JList(<<JStr("e1"), JNum(5)>>)}
    \cup MsgDicts
    \cup {JDict(d) : d \in DictsUpTo(MaxEntries)}
    \cup {ExampleError}
    \cup {JNum(5), JNum(0), None, JBool(TRUE)}

ErrorBodies ==
    {JDict(e \o n) :
        e \in Opt("error", ErrorShapes),
        n \in Opt("name", {JStr("widget1"), JStr(""), None})}

Invalid == [t |-> "invalid"]    \* a body that is no JSON document

SmallBodies ==
    {JStr("oops"), Invalid, None, JList(<<>>), JNum(5), JDict(<<>>),
     JDict(<<<<"status", JBool(TRUE)>>, <<"data", JList(<<JStr("abc")>>)>>>>),
     JDict(<<<<"error", JStr("Conflict")>>, <<"name", JStr("widget1")>>>>),
     JDict(<<<<"error", JNum(5)>>>>),
     JDict(<<<<"error", None>>, <<"name", JStr("widget1")>>>>),
     JDict(<<<<"error", ExampleError>>>>)}

StatusCodes == {200, 204, 302, 399, 400, 404, 409, 499, 500, 503, 599, 600}

Reason(code) ==
    CASE code = 200 -> "OK"
      [] code = 204 -> "No Content"
      [] code = 302 -> "Found"
      [] code = 400 -> "Bad Request"
      [] code = 404 -> "Not Found"
      [] code = 409 -> "Conflict"
      [] code = 500 -> "Internal Server Error"
      [] code = 503 -> "Service Unavailable"
      [] OTHER -> "Unknown"

ContentTypes ==
    {JStr("application/json"), JStr("application/x-gzip"), JStr("text/html"),
     JStr("application/json; charset=utf-8"), None}

SomeUrl == "http://host:80/SAFe/sng_rest/api/retrieve/nsc/things/abc"

Response(code, ctype, body, url) ==
    [status_code |-> code, reason |-> Reason(code), content_type |-> ctype,
     body |-> body, url |-> url]

Responses ==
    {Response(c, ct, b, SomeUrl) :
        c \in StatusCodes, ct \in ContentTypes, b \in SmallBodies}
    \cup {Response(c, JStr("application/json"), b, SomeUrl) :
            c \in {400, 409}, b \in ErrorBodies}

\* no builder and no proxy constructed
NoProgram ==
    /\ builders = <<>>
    /\ proxies = <<>>
    /\ created = <<>>
    /\ ncalls = 0
    /\ call = [op |-> "none"]
    /\ log = <<>>
    /\ ret = Pending
    /\ schema_node = None
    /\ compiled = Pending

---------------------------------------------------------------------------
(* The response interpreter applied to every response *)

InitResp ==
    /\ r \in Responses
    /\ unpacked = Pending
    /\ name = None
    /\ typename = Pending
    /\ NoProgram

Unpack ==
    /\ unpacked = Pending
    /\ unpacked' = unpack_rest_response(r)
    /\ UNCHANGED <<nameVars, progVars, compVars, r>>

NextResp == Unpack

SpecResp == InitResp /\ [][NextResp]_vars

---------------------------------------------------------------------------
(* Identifier sanitisation applied to every name *)

MaxNameLen == 3

NameChars == {"i", "f", "M", "3", "_", " ", "!", "~e"}   \* "~e": a non-ASCII letter

RECURSIVE SeqsUpTo(_, _)
SeqsUpTo(S, n) ==
    IF n = 0 THEN {<<>>}
    ELSE LET shorter == SeqsUpTo(S, n - 1)
         IN shorter \cup {Append(s, c) : s \in {x \in shorter : Len(x) = n - 1}, c \in S}

MyObject == <<"M","y"," ","O","b","j","e","c","t","!">>

InputNames ==
    {None}
    \cup {[t |-> "str", v |-> cs] : cs \in SeqsUpTo(NameChars, MaxNameLen)}
    \cup {[t |-> "str", v |-> cs] :
            cs \in {MyObject, <<"c","l","a","s","s">>, <<"9","l","i","v","e","s">>}}

InitName ==
    /\ name \in InputNames
    /\ typename = Pending
    /\ r = Response(200, None, None, SomeUrl)
    /\ unpacked = Pending
    /\ NoProgram

MakeTypename ==
    /\ typename = Pending
    /\ typename' = make_typename(name)
    /\ UNCHANGED <<respVars, progVars, compVars, name>>

NextName == MakeTypename

SpecName == InitName /\ [][NextName]_vars

---------------------------------------------------------------------------
(* Properties of the response interpreter (SpecResp) *)

IsJson4xx ==
    /\ unpacked # Pending
    /\ r.status_code \in 400..499
    /\ r.content_type = JStr("application/json")
    /\ r.body.t = "dict"

ErrorField == DictGet(r.body, "error")

C5_GenericClient ==
    ToString(r.status_code) \o " Client Error: " \o r.reason \o " for url: " \o r.url

C5_GenericServer ==
    ToString(r.status_code) \o " Server Error: " \o r.reason \o " for url: " \o r.url

\* C5: unpack_rest_response never returns an interpreted response for a 4xx
\* or 5xx response, whatever the content type and the body: it raises.  A
\* JSON 4xx body (an object) whose error field is a number, null or absent
\* raises the generic client error, and every 5xx raises the generic server
\* error whatever the body.
C5_ErrorStatusAlwaysRaises ==
    (unpacked # Pending /\ r.status_code \in 400..599) =>
        /\ unpacked.kind = "raise"
        /\ r.status_code >= 500 =>
              unpacked = Raise("HTTPError", C5_GenericServer)
        /\ (IsJson4xx /\ ErrorField.t \in {"num", "null"}) =>
              unpacked = Raise("HTTPError", C5_GenericClient)

C5_Witness ==
    /\ IsJson4xx
    /\ r.status_code = 404
    /\ ErrorField = JNum(5)
    /\ unpacked = Raise("HTTPError",
         "404 Client Error: Not Found for url: " \o SomeUrl)

\* the message computed from the error field, when one is computed
HasComputedMessage ==
    /\ IsJson4xx
    /\ ComputedMessage(ErrorField).kind = "return"

\* C6: in the normalisation of a JSON 4xx body the name rule applies only
\* when the body carries a name field: a computed message "Conflict" becomes
\* "The key '<name>' is in conflict with the system", any other message is
\* prefixed with "Error for <name>: "; without a name field the final message
\* is the computed message unchanged.
C6_NameRule ==
    HasComputedMessage =>
        LET message == ComputedMessage(ErrorField).value
            nm == DictGet(r.body, "name")
        IN unpacked =
             Raise("APIError",
                   IF HasKey(r.body, "name")
                   THEN IF message = "Conflict"
                        THEN "The key '" \o Fmt(nm)
                                 \o "' is in conflict with the system"
                        ELSE "Error for " \o Fmt(nm) \o ": " \o message
                   ELSE message)

\* the non-object leaves under a dictionary's entries, each with the keys
\* that lead to it from the top
RECURSIVE C7_LeavesOf(_, _)
C7_LeavesOf(kvs, above) ==
    IF kvs = <<>> THEN <<>>
    ELSE LET keys == Append(above, kvs[1][1])
             val == kvs[1][2]
         IN (IF val.t = "dict" THEN C7_LeavesOf(val.v, keys)
             ELSE <<[keys |-> keys, val |-> val]>>)
            \o C7_LeavesOf(Tail(kvs), above)

C7_Flattened(error, IsUnknown(_)) ==
    LET leaves == C7_LeavesOf(error.v, <<>>)
    IN StrJoin("\n",
         [i \in 1..Len(leaves) |->
            StrJoin("/", leaves[i].keys) \o ": " \o
              (IF IsUnknown(leaves[i].val) THEN "unknown error"
               ELSE leaves[i].val.v)])

C7_IsNull(x) == x.t = "null"
C7_IsFalse(x) == ~Truthy(x)

C7_FirstObjComplete(error) ==
    /\ HasKey(error, "obj")
    /\ DictGet(error, "obj").t = "list"
    /\ DictGet(error, "obj").v # <<>>
    /\ HasKey(DictGet(error, "obj").v[1], "obj_type")
    /\ HasKey(DictGet(error, "obj").v[1], "obj_name")

C7_InUse(error) ==
    LET obj == DictGet(error, "obj").v[1]
    IN "In use by " \o DictGet(obj, "obj_type").v \o " '"
          \o DictGet(obj, "obj_name").v \o "'"

\* every leaf is a string or a false value (None, "", 0)
C7_LeavesJoinable(error) ==
    LET leaves == C7_LeavesOf(error.v, <<>>)
    IN \A i \in 1..Len(leaves) :
          leaves[i].val.t = "str" \/ ~Truthy(leaves[i].val)

---------------------------------------------------------------------------
(* Properties of identifier sanitisation (SpecName) *)

C9_IdentOnly(cs) == \A i \in 1..Len(cs) : cs[i] \in IdentChars

\* C9: make_typename maps "My Object!" to "My_Object_", maps an empty name
\* and a None name to the fixed fallback identifier, raises a naming error
\* (ValueError, never another failure) for a name whose sanitised form starts
\* with a digit or is a reserved keyword, and returns only identifiers over
\* [A-Za-z0-9_].
C9_Sanitization ==
    typename # Pending =>
        /\ name = [t |-> "str", v |-> MyObject] =>
              typename = Return(<<"M","y","_","O","b","j","e","c","t","_">>)
        /\ (name.t = "null" \/ name = [t |-> "str", v |-> <<>>]) =>
              typename = Return(RestObject)
        /\ (/\ name.t = "str"
            /\ Sanitize(name.v) # <<>>
            /\ \/ Sanitize(name.v)[1] \in Digits
               \/ Sanitize(name.v) \in Keywords) =>
              (typename.kind = "raise" /\ typename.exc = "ValueError")
        /\ typename.kind = "return" => C9_IdentOnly(typename.value)

---------------------------------------------------------------------------
(* safe/url.py: the URL builder and its request dispatch.  A builder is    *)
(* [base, session, segments, timeout]; `bs` is the sequence of the builder *)
(* objects alive, a builder's identity being its index.                    *)

\* the characters of a string, joined
RECURSIVE Str(_)
Str(cs) == IF cs = <<>> THEN "" ELSE Head(cs) \o Str(Tail(cs))

UrlBuilder__init__(base, session, segments, timeout) ==
    [base |-> base, session |-> session, segments |-> segments,
     timeout |-> timeout]

\* url_builder(host, port, scheme, timeout=timeout): the base is held by its
\* parts, the path split at '/' (the last, empty, part is the trailing slash)
url_builder(host, port, scheme, timeout) ==
    UrlBuilder__init__(
        [scheme |-> scheme, netloc |-> host \o ":" \o ToString(port),
         path |-> <<"SAFe", "sng_rest", "">>],
        "session", <<>>, timeout)

\* __call__ that appends to the builder it is called on, and copies it
UrlBuilder__call__InPlace(bs, self, segments) ==
    LET grown == [bs EXCEPT ![self].segments = @ \o segments]
    IN Append(grown, grown[self])

\* UrlBuilder.__call__(self, *segments): the builders with the new one last
UrlBuilder__call__(bs, self, segments) ==
    Append(bs, UrlBuilder__init__(bs[self].base, bs[self].session,
                                  bs[self].segments \o segments,
                                  bs[self].timeout))

\* tuple(keys): the items of a list, the keys of a dictionary
Tuple(keys) ==
    IF keys.t = "dict" THEN [i \in 1..Len(keys.v) |-> keys.v[i][1]]
    ELSE [i \in 1..Len(keys.v) |-> keys.v[i].v]

\* urljoin(base, '/'.join(segments)) for a relative path of slash-free,
\* dot-free segments: the last part of the base's path gives way to it
urljoin(base, segments) ==
    [base EXCEPT !.path = SubSeq(base.path, 1, Len(base.path) - 1) \o segments]

UrlStr(u) == u.scheme \o "://" \o u.netloc \o "/" \o StrJoin("/", u.path)

\* url with the builder's segments ahead of the prefix and the method
UrlBuilder_url_SegmentsFirst(b, prefix, method, keys) ==
    LET pre == IF method # "" THEN <<prefix, method>> ELSE <<prefix>>
    IN urljoin(b.base, b.segments \o Tuple(keys) \o pre)

\* UrlBuilder.url(self, prefix, method=None, keys=()); no method is ""
UrlBuilder_url(b, prefix, method, keys) ==
    LET pre == IF method # "" THEN <<prefix, method>> ELSE <<prefix>>
    IN urljoin(b.base, pre \o b.segments \o Tuple(keys))

\* json.dumps(data)
RECURSIVE JsonDumps(_)
JsonDumps(x) ==
    CASE x.t = "str" -> "\"" \o x.v \o "\""
      [] x.t = "num" -> ToString(x.v)
      [] x.t = "bool" -> IF x.v THEN "true" ELSE "false"
      [] x.t = "null" -> "null"
      [] x.t = "list" ->
            "[" \o StrJoin(", ", [i \in 1..Len(x.v) |-> JsonDumps(x.v[i])]) \o "]"
      [] x.t = "dict" ->
            "{" \o StrJoin(", ", [i \in 1..Len(x.v) |->
                     "\"" \o x.v[i][1] \o "\": " \o JsonDumps(x.v[i][2])]) \o "}"

\* One request handed to the session
Request(verb, u, data, files, headers, timeout) ==
    [verb |-> verb, url |-> UrlStr(u), path |-> u.path, data |-> data,
     files |-> files, headers |-> headers, timeout |-> timeout]

\* The server's reply to a request: [status_code, content_type, body]
Received(reply, req) ==
    Response(reply.status_code, reply.content_type, reply.body, req.url)

\* a call's effect: the requests it issued and its outcome
Done(reqs, out) == [reqs |-> reqs, out |-> out]

\* UrlBuilder.get(self, prefix, method=None, keys=())
UrlBuilder_get(b, prefix, method, keys, reply) ==
    Bind(Request("GET", UrlBuilder_url(b, prefix, method, keys),
                 None, None, <<>>, b.timeout), LAMBDA req :
       Done(<<req>>, unpack_rest_response(Received(reply, req))))

\* UrlBuilder.post(self, prefix, method=None, keys=(), data=None)
UrlBuilder_post(b, prefix, method, keys, data, reply) ==
    LET postdata == IF Truthy(data) THEN JStr(JsonDumps(data)) ELSE None
    IN Bind(Request("POST", UrlBuilder_url(b, prefix, method, keys),
                    postdata, None,
                    <<<<"Content-Type", "application/json">>>>, b.timeout),
            LAMBDA req :
               Done(<<req>>, unpack_rest_response(Received(reply, req))))

\* UrlBuilder.upload(self, prefix, filename, payload=None); `file` is the
\* content of the file, None when it cannot be opened
UrlBuilder_upload(b, prefix, filename, payload, file, reply) ==
    IF ~Truthy(payload) /\ file.t = "null"
    THEN Done(<<>>, Raise("IOError", filename))
    ELSE LET sent == IF Truthy(payload) THEN payload ELSE file
         IN Bind(Request("POST", UrlBuilder_url(b, prefix, "upload", JList(<<>>)),
                         None, <<"archive", filename, sent.v>>, <<>>, b.timeout),
                 LAMBDA req :
                    Done(<<req>>, unpack_rest_response(Received(reply, req))))

\* APIResponse.data
APIResponse_data(resp) ==
    IF resp.mimetype = "application/json"
    THEN IF resp.content.t = "dict" THEN Return(DictGet(resp.content, "data"))
         ELSE Raise("AttributeError", "get")
    ELSE Return(None)

\* do_get(url): one GET of the url, giving the unpacked data
do_get(u, reply) ==
    Bind(Request("GET", u, None, None, <<>>, None), LAMBDA req :
    Bind(unpack_rest_response(Received(reply, req)), LAMBDA resp :
       Done(<<req>>, IF resp.kind = "raise" THEN resp
                     ELSE APIResponse_data(resp.value))))

\* do_post(url, data): one POST of the url with data as its JSON body,
\* giving nothing
do_post(u, data, reply) ==
    LET postdata == IF Truthy(data) THEN JStr(JsonDumps(data)) ELSE None
    IN Bind(Request("POST", u, postdata, None,
                    <<<<"Content-Type", "application/json">>>>, None), LAMBDA req :
       Bind(unpack_rest_response(Received(reply, req)), LAMBDA resp :
          Done(<<req>>, IF resp.kind = "raise" THEN resp ELSE Return(None))))

---------------------------------------------------------------------------
(* safepy/nodes.py and safepy/api.py: schema nodes and the proxy compiler. *)
(* A node is [tag, path, spec, objs, cls, methods]: spec holds the node's  *)
(* own dictionary (Node is a dict); tags and names are held by their       *)
(* characters, as make_typename reads them.  H = [bs, px] is the heap: the *)
(* builders and the proxies alive.                                         *)

Node(tag, path, spec, objs, cls, methods) ==
    [tag |-> tag, path |-> path, spec |-> JDict(spec), objs |-> objs,
     cls |-> cls, methods |-> methods]

\* ObjectNode.singleton with the path's length left out
ObjectNode_singleton_FlagOnly(node) ==
    IF HasKey(node.spec, "singleton") THEN DictGet(node.spec, "singleton")
    ELSE JBool(FALSE)

\* ObjectNode.singleton
ObjectNode_singleton(node) ==
    IF Len(node.path) = 1 THEN JBool(TRUE)
    ELSE IF HasKey(node.spec, "singleton") THEN DictGet(node.spec, "singleton")
    ELSE JBool(FALSE)

OVERRIDDEN == {"list"}
COLLECTION_METHODS == {"create", "retrieve", "update", "delete"}
HTTP_REQUEST(request) ==
    IF request = "GET" THEN "make_get_method" ELSE "make_post_method"

\* object_template(node): the type name
object_template(node) == make_typename(DictGet(node.spec, "name"))

\* One turn of compile_methods' loop: the method's name in the namespace,
\* the make function that built it, and the url or builder bound to it
compile_method(node, b, ubi, collection) ==
    LET tag == Str(node.tag)
        u == UrlBuilder_url(b, "api", tag, JList(<<>>))
    IN IF tag \in OVERRIDDEN
       THEN [name |-> "list", make |-> "make_list", url |-> u, ub |-> ubi]
       ELSE IF collection /\ tag \in COLLECTION_METHODS
       THEN [name |-> tag, make |-> "make_" \o tag, url |-> u, ub |-> ubi]
       ELSE [name |-> Str(make_typename([t |-> "str", v |-> node.tag]).value),
             make |-> HTTP_REQUEST(DictGet(node.spec, "request").v),
             url |-> u, ub |-> ubi]

compile_methods(ast, b, ubi, collection) ==
    [i \in 1..Len(ast) |-> compile_method(ast[i], b, ubi, collection)]

compile_properties(ast) ==
    [i \in 1..Len(ast) |->
        [name |-> Str(make_typename([t |-> "str", v |-> ast[i].tag]).value),
         attr |-> Str(ast[i].tag)]]

\* name in namespace
HasAttr(ns, attr) == \E i \in 1..Len(ns) : ns[i].name = attr

\* namespace[name]: the entry stored last under the name
Attr(ns, attr) ==
    ns[CHOOSE i \in 1..Len(ns) :
          /\ ns[i].name = attr
          /\ \A j \in (i + 1)..Len(ns) : ns[j].name # attr]

RECURSIVE compile_child(_, _, _)
RECURSIVE compile_objects(_, _, _)
RECURSIVE compile_object(_, _, _)

\* compile_child(node, ub): the heap with the new proxy, and the proxy
compile_child(H, node, ubi) ==
    Bind(compile_objects(H, node.objs, ubi), LAMBDA o :
    Bind(compile_methods(node.methods, o.H.bs[ubi], ubi, FALSE), LAMBDA methods :
       [H |-> [o.H EXCEPT !.px = Append(@,
                 [kind |-> "child",
                  typename |-> object_template(node).value,
                  node |-> node, ub |-> ubi,
                  props |-> compile_properties(node.cls),
                  members |-> o.members,
                  methods |-> methods,
                  getitem |-> FALSE,
                  repr |-> IF HasAttr(methods, "retrieve") THEN "retrieve" ELSE ""])],
        p |-> Len(o.H.px) + 1]))

\* compile_collection(node, ub)
compile_collection(H, node, ubi) ==
    Bind(compile_methods(node.methods, H.bs[ubi], ubi, TRUE), LAMBDA methods :
       [H |-> [H EXCEPT !.px = Append(@,
                 [kind |-> "collection",
                  typename |-> object_template(node).value,
                  node |-> node, ub |-> ubi,
                  props |-> <<>>,
                  members |-> <<>>,
                  methods |-> methods,
                  getitem |-> TRUE,
                  repr |-> IF HasAttr(methods, "list") THEN "list" ELSE ""])],
        p |-> Len(H.px) + 1])

\* compile_object(node, ub)
compile_object(H, node, ubi) ==
    Bind([H EXCEPT !.bs = UrlBuilder__call__(H.bs, ubi, <<Str(node.tag)>>)],
         LAMBDA H1 :
            IF Truthy(ObjectNode_singleton(node))
            THEN compile_child(H1, node, Len(H1.bs))
            ELSE compile_collection(H1, node, Len(H1.bs)))

\* compile_objects(ast, ub): the heap and the members {n.tag: proxy}
compile_objects(H, ast, ubi) ==
    IF ast = <<>> THEN [H |-> H, members |-> <<>>]
    ELSE Bind(compile_object(H, Head(ast), ubi), LAMBDA c :
         Bind(compile_objects(c.H, Tail(ast), ubi), LAMBDA rest :
            [H |-> rest.H,
             members |-> <<[name |-> Str(Head(ast).tag), proxy |-> c.p]>>
                            \o rest.members]))

\* make_getitem(node, ub).__getitem__(self, key)
make_getitem(H, self, key) ==
    Bind([H EXCEPT !.bs = UrlBuilder__call__(H.bs, H.px[self].ub, <<key>>)],
         LAMBDA H1 : compile_child(H1, H1.px[self].node, Len(H1.bs)))

LowerSeq == <<"a", "b", "c", "d", "e", "f", "g", "h", "i", "j", "k", "l", "m",
             "n", "o", "p", "q", "r", "s", "t", "u", "v", "w", "x", "y", "z">>
UpperSeq == <<"A", "B", "C", "D", "E", "F", "G", "H", "I", "J", "K", "L", "M",
             "N", "O", "P", "Q", "R", "S", "T", "U", "V", "W", "X", "Y", "Z">>

\* host.partition('.')[0]
RECURSIVE LeadingLabel(_)
LeadingLabel(cs) ==
    IF cs = <<>> \/ Head(cs) = "." THEN <<>>
    ELSE <<Head(cs)>> \o LeadingLabel(Tail(cs))

ToUpper(c) ==
    IF c \in Lower THEN UpperSeq[CHOOSE i \in 1..26 : LowerSeq[i] = c] ELSE c
ToLower(c) ==
    IF c \in Upper THEN LowerSeq[CHOOSE i \in 1..26 : UpperSeq[i] = c] ELSE c

\* str.capitalize()
Capitalize(cs) ==
    [i \in 1..Len(cs) |-> IF i = 1 THEN ToUpper(cs[i]) ELSE ToLower(cs[i])]

\* api(host, port, scheme): the root builder, the compiled objects and the
\* product object that holds them
api(ast, host, port, scheme) ==
    Bind([bs |-> <<url_builder(Str(host), port, scheme, None)>>, px |-> <<>>],
         LAMBDA H0 :
    Bind(compile_objects(H0, ast, 1), LAMBDA o :
       [o.H EXCEPT !.px = Append(@,
           [kind |-> "product",
            typename |-> make_typename(
                [t |-> "str", v |-> Capitalize(LeadingLabel(host))]).value,
            node |-> None, ub |-> 1, props |-> <<>>,
            members |-> o.members, methods |-> <<>>,
            getitem |-> FALSE, repr |-> ""])]))

---------------------------------------------------------------------------
(* safepy/api.py: the synthesized methods.  Each gives the heap it leaves, *)
(* the requests it issued and its outcome.                                  *)

Effect(H, reqs, out) == [H |-> H, reqs |-> reqs, out |-> out]

\* a == b on Python values
PyEq(a, b) == a.t = b.t /\ a = b

\* FilterMatches that keeps an entry whose record lacks a filter field
FilterMatches_MissingPasses(elem, filter) ==
    IF filter.v = <<>> THEN Return(TRUE)
    ELSE IF elem.t # "dict" THEN Raise("TypeError", "not iterable")
    ELSE Return(\A i \in 1..Len(filter.v) :
                   HasKey(elem, filter.v[i][1]) =>
                      PyEq(DictGet(elem, filter.v[i][1]), filter.v[i][2]))

\* all((k in elem and elem[k] == v) for k, v in filter.iteritems())
FilterMatches(elem, filter) ==
    IF filter.v = <<>> THEN Return(TRUE)
    ELSE IF elem.t # "dict" THEN Raise("TypeError", "not iterable")
    ELSE Return(\A i \in 1..Len(filter.v) :
                   /\ HasKey(elem, filter.v[i][1])
                   /\ PyEq(DictGet(elem, filter.v[i][1]), filter.v[i][2]))

\* proxy.attr() for a method that takes no argument
CallNoArgs(H, p, attr, reply) ==
    IF ~HasAttr(H.px[p].methods, attr)
    THEN Effect(H, <<>>, Raise("AttributeError", attr))
    ELSE Bind(Attr(H.px[p].methods, attr), LAMBDA m :
         Bind(CASE m.make = "make_get_method" -> do_get(m.url, reply)
                [] m.make = "make_list" -> do_get(m.url, reply)
                [] m.make = "make_post_method" ->
                      do_post(m.url, JDict(<<>>), reply)
                [] OTHER -> Done(<<>>, Raise("TypeError", "arguments")),
              LAMBDA d : Effect(H, d.reqs, d.out)))

\* proxy.attr(data) for a method that takes one argument
CallOneArg(H, p, attr, data, reply) ==
    IF ~HasAttr(H.px[p].methods, attr)
    THEN Effect(H, <<>>, Raise("AttributeError", attr))
    ELSE Bind(Attr(H.px[p].methods, attr), LAMBDA m :
         Bind(CASE m.make = "make_post_method" -> do_post(m.url, data, reply)
                [] OTHER -> Done(<<>>, Raise("TypeError", "arguments")),
              LAMBDA d : Effect(H, d.reqs, d.out)))

\* the loop of list (lines 67-73) over the items left, with the server's
\* reply to each retrieve
RECURSIVE ListLoop(_, _, _, _, _, _, _)
ListLoop(H, self, items, replies, filter, reqs, matches) ==
    IF items = <<>> THEN Effect(H, reqs, Return(JList(matches)))
    ELSE IF ~H.px[self].getitem
    THEN Effect(H, reqs, Raise("TypeError", "__getitem__"))
    ELSE Bind(make_getitem(H, self, Head(items)), LAMBDA child :
         Bind(CallNoArgs(child.H, child.p, "retrieve", Head(replies)), LAMBDA e :
            IF e.out.kind = "raise" THEN Effect(e.H, reqs \o e.reqs, e.out)
            ELSE Bind(FilterMatches(e.out.value, filter), LAMBDA ok :
                 IF ok.kind = "raise" THEN Effect(e.H, reqs \o e.reqs, ok)
                 ELSE Bind(Effect(e.H, reqs \o e.reqs,
                                  IF ok.value
                                  THEN Append(matches, JStr(Head(items)))
                                  ELSE matches), LAMBDA acc :
                      ListLoop(acc.H, self, Tail(items), Tail(replies), filter,
                               acc.reqs, acc.out)))))

\* make_list(url).list(self, filter=None)
make_list(H, self, u, filter, reply, replies) ==
    Bind(do_get(u, reply), LAMBDA d :
       IF d.out.kind = "raise" \/ filter.t = "null" THEN Effect(H, d.reqs, d.out)
       ELSE IF d.out.value.t \notin {"list", "dict"}
       THEN Effect(H, d.reqs, Raise("TypeError", "not iterable"))
       ELSE ListLoop(H, self, Tuple(d.out.value), replies, filter, d.reqs, <<>>))

\* create that fetches the new instance before it returns it
make_create_Refetch(H, self, ub, key, data, reply) ==
    Bind([H EXCEPT !.bs = UrlBuilder__call__(H.bs, ub, <<key>>)], LAMBDA H1 :
    Bind(UrlBuilder_post(H1.bs[Len(H1.bs)], "api", "create", data, None, reply),
         LAMBDA d :
       IF d.out.kind = "raise" THEN Effect(H1, d.reqs, d.out)
       ELSE Bind(make_getitem(H1, self, key), LAMBDA child :
            Bind(CallNoArgs(child.H, child.p, "retrieve", reply), LAMBDA e :
               Effect(child.H, d.reqs \o e.reqs,
                      Return([t |-> "proxy", v |-> child.p]))))))

\* make_create(ub).create(self, key, data={}): data is post's third
\* positional argument, keys
make_create(H, self, ub, key, data, reply) ==
    Bind([H EXCEPT !.bs = UrlBuilder__call__(H.bs, ub, <<key>>)], LAMBDA H1 :
    Bind(UrlBuilder_post(H1.bs[Len(H1.bs)], "api", "create", data, None, reply),
         LAMBDA d :
       IF d.out.kind = "raise" THEN Effect(H1, d.reqs, d.out)
       ELSE Bind(make_getitem(H1, self, key), LAMBDA child :
               Effect(child.H, d.reqs, Return([t |-> "proxy", v |-> child.p])))))

\* make_retrieve(ub).retrieve(self, key)
make_retrieve(H, self, ub, key, reply) ==
    Bind([H EXCEPT !.bs = UrlBuilder__call__(H.bs, ub, <<key>>)], LAMBDA H1 :
    Bind(UrlBuilder_get(H1.bs[Len(H1.bs)], "api", "retrieve", JList(<<>>), reply),
         LAMBDA d : Effect(H1, d.reqs, d.out)))

\* make_update(ub).update(self, key, data): data is post's third positional
\* argument, keys
make_update(H, self, ub, key, data, reply) ==
    Bind([H EXCEPT !.bs = UrlBuilder__call__(H.bs, ub, <<key>>)], LAMBDA H1 :
    Bind(UrlBuilder_post(H1.bs[Len(H1.bs)], "api", "update", data, None, reply),
         LAMBDA d : Effect(H1, d.reqs,
                           IF d.out.kind = "raise" THEN d.out ELSE Return(None))))

\* make_delete(ub).delete(self, key)
make_delete(H, self, ub, key, reply) ==
    Bind([H EXCEPT !.bs = UrlBuilder__call__(H.bs, ub, <<key>>)], LAMBDA H1 :
    Bind(UrlBuilder_post(H1.bs[Len(H1.bs)], "api", "delete", JList(<<>>), None,
                         reply),
         LAMBDA d : Effect(H1, d.reqs,
                           IF d.out.kind = "raise" THEN d.out ELSE Return(None))))

\* make_getter(attr).getter(self): self.retrieve()[attr]
make_getter(H, self, attr, reply) ==
    Bind(CallNoArgs(H, self, "retrieve", reply), LAMBDA e :
       IF e.out.kind = "raise" THEN e
       ELSE IF e.out.value.t # "dict"
       THEN Effect(e.H, e.reqs, Raise("TypeError", "subscript"))
       ELSE IF ~HasKey(e.out.value, attr)
       THEN Effect(e.H, e.reqs, Raise("KeyError", attr))
       ELSE Effect(e.H, e.reqs, Return(DictGet(e.out.value, attr))))

\* make_setter(attr).setter(self, value): self.update({attr: value})
make_setter(H, self, attr, value, reply) ==
    CallOneArg(H, self, "update", JDict(<<<<attr, value>>>>), reply)

\* make_get_method(url).get(self)
make_get_method(H, u, reply) ==
    Bind(do_get(u, reply), LAMBDA d : Effect(H, d.reqs, d.out))

\* make_post_method(url).post(self, data={})
make_post_method(H, u, data, reply) ==
    Bind(do_post(u, data, reply), LAMBDA d : Effect(H, d.reqs, d.out))

---------------------------------------------------------------------------
(* The schema the program is connected to, and the server's replies *)

MaxCalls == 2

Chars_nsc == <<"n","s","c">>
Chars_things == <<"t","h","i","n","g","s">>

MethodNode(tag, path, request) ==
    Node(tag, Append(path, tag), <<<<"request", JStr(request)>>>>, <<>>, <<>>, <<>>)

ClassNode(tag, path) ==
    Node(tag, Append(path, tag), <<<<"help", JStr("help")>>>>, <<>>, <<>>, <<>>)

\* the usual verbs of a resource, and one method of its own
RestMethods(path) ==
    <<MethodNode(<<"l","i","s","t">>, path, "GET"),
      MethodNode(<<"c","r","e","a","t","e">>, path, "POST"),
      MethodNode(<<"r","e","t","r","i","e","v","e">>, path, "GET"),
      MethodNode(<<"u","p","d","a","t","e">>, path, "POST"),
      MethodNode(<<"d","e","l","e","t","e">>, path, "POST"),
      MethodNode(<<"r","e","s","e","t">>, path, "POST")>>

ThingsNode ==
    Node(Chars_things, <<Chars_nsc, Chars_things>>,
         <<<<"name", [t |-> "str", v |-> <<"T","h","i","n","g">>]>>>>,
         <<>>,
         <<ClassNode(<<"s","t","a","t","u","s">>, <<Chars_nsc, Chars_things>>)>>,
         RestMethods(<<Chars_nsc, Chars_things>>))

\* a module: an object at the root that reports itself as no singleton
NscNode ==
    Node(Chars_nsc, <<Chars_nsc>>,
         <<<<"name", [t |-> "str", v |-> <<"N","S","C">>]>>,
           <<"singleton", JBool(FALSE)>>>>,
         <<ThingsNode>>,
         <<>>,
         <<MethodNode(<<"v","e","r","s","i","o","n">>, <<Chars_nsc>>, "GET")>>)

Schema == <<NscNode>>

Host == <<"h","o","s","t",".","l","a","n">>

ItemKeys == {"abc", "xyz"}

Reply(code, ctype, body) ==
    [status_code |-> code, content_type |-> JStr(ctype), body |-> body]

ReplyOk(data) ==
    Reply(200, "application/json",
          JDict(<<<<"status", JBool(TRUE)>>, <<"data", data>>>>))
ReplyNotFound ==
    Reply(404, "application/json", JDict(<<<<"error", JStr("Not found")>>>>))
ReplyDown == Reply(503, "text/html", JStr("<html>"))
ReplyArchive == Reply(200, "application/x-gzip", JStr("gzip"))

Replies == {ReplyOk(None), ReplyNotFound}

Listings == {<<>>, <<JStr("abc")>>, <<JStr("xyz"), JStr("abc")>>}

ListReplies == {ReplyOk(JList(l)) : l \in Listings} \cup {ReplyDown}

Records ==
    {JDict(<<<<"status", JStr("active")>>, <<"kind", JStr("x")>>>>),
     JDict(<<<<"status", JStr("inactive")>>, <<"kind", JStr("x")>>>>),
     JDict(<<<<"status", JStr("active")>>>>)}

RetrieveReplies == {ReplyOk(rec) : rec \in Records} \cup {ReplyNotFound}

Filters ==
    {None, JDict(<<>>),
     JDict(<<<<"kind", JStr("x")>>, <<"status", JStr("active")>>>>)}

Payloads == {JDict(<<>>), JDict(<<<<"status", JStr("active")>>>>)}

\* the keys a list reply lists
Listed(reply) ==
    IF reply.status_code = 200 /\ reply.body.t = "dict"
       /\ DictGet(reply.body, "data").t = "list"
    THEN Tuple(DictGet(reply.body, "data"))
    ELSE <<>>

---------------------------------------------------------------------------
(* The program: the calls made on the builders and the compiled proxies *)

NoInterpreter ==
    /\ r = Response(200, None, None, SomeUrl)
    /\ unpacked = Pending
    /\ name = None
    /\ typename = Pending

NoCompiler ==
    /\ schema_node = None
    /\ compiled = Pending

Init ==
    /\ LET H == api(Schema, Host, 80, "http")
       IN /\ builders = H.bs
          /\ proxies = H.px
          /\ created = H.bs
    /\ ncalls = 0
    /\ call = [op |-> "api"]
    /\ log = <<>>
    /\ ret = Pending
    /\ NoInterpreter
    /\ NoCompiler

Heap == [bs |-> builders, px |-> proxies]

\* The call c ends with effect e.  The objects the call made stay alive when
\* it returns one of them (keep); otherwise nothing refers to them.
Commit(c, e, keep) ==
    \E eff \in {e} :
        /\ ncalls' = ncalls + 1
        /\ builders' = IF keep THEN eff.H.bs ELSE SubSeq(eff.H.bs, 1, Len(builders))
        /\ proxies' = IF keep THEN eff.H.px ELSE SubSeq(eff.H.px, 1, Len(proxies))
        /\ created' = created \o SubSeq(builders', Len(builders) + 1, Len(builders'))
        /\ call' = c
        /\ log' = eff.reqs
        /\ ret' = eff.out
        /\ UNCHANGED <<respVars, nameVars, compVars>>

BuilderCalls ==
    {<<"doc", "", JList(<<>>)>>, <<"api", "retrieve", JList(<<JStr("abc")>>)>>}

\* b(*segments)
Extend ==
    /\ ncalls < MaxCalls
    /\ \E b \in 1..Len(builders), segments \in {<<"abc">>, <<"abc", "xyz">>} :
        LET bs1 == UrlBuilder__call__(builders, b, segments)
        IN Commit([op |-> "extend", self |-> b, segments |-> segments],
                  Effect([Heap EXCEPT !.bs = bs1], <<>>,
                         Return([t |-> "builder", v |-> Len(bs1)])),
                  TRUE)

\* b.url(prefix, method, keys)
Url ==
    /\ ncalls < MaxCalls
    /\ \E b \in 1..Len(builders), a \in BuilderCalls :
        Commit([op |-> "url", self |-> b, args |-> a],
               Effect(Heap, <<>>,
                      Return(JStr(UrlStr(UrlBuilder_url(builders[b], a[1], a[2], a[3]))))),
               FALSE)

\* b.get(prefix, method, keys)
Get ==
    /\ ncalls < MaxCalls
    /\ \E b \in 1..Len(builders), reply \in Replies \cup {ReplyArchive} :
      \E a \in {<<"api", "retrieve", JList(<<JStr("abc")>>)>>} :
        LET d == UrlBuilder_get(builders[b], a[1], a[2], a[3], reply)
        IN Commit([op |-> "get", self |-> b, args |-> a, reply |-> reply],
                  Effect(Heap, d.reqs, d.out), FALSE)

\* b.post(prefix, method, keys, data)
Post ==
    /\ ncalls < MaxCalls
    /\ \E b \in 1..Len(builders), data \in {None, JDict(<<<<"status", JStr("active")>>>>)},
       reply \in {ReplyOk(None)} :
      \E a \in {<<"api", "update", JList(<<JStr("abc")>>)>>} :
        LET d == UrlBuilder_post(builders[b], a[1], a[2], a[3], data, reply)
        IN Commit([op |-> "post", self |-> b, args |-> a, data |-> data,
                   reply |-> reply],
                  Effect(Heap, d.reqs, d.out), FALSE)

\* b.upload(prefix, filename, payload)
Upload ==
    /\ ncalls < MaxCalls
    /\ \E b \in 1..Len(builders),
       pf \in {<<JStr("archive"), None>>, <<None, JStr("bytes")>>, <<None, None>>},
       reply \in {ReplyOk(None)} :
      \E payload \in {pf[1]}, file \in {pf[2]} :
        LET d == UrlBuilder_upload(builders[b], "api", "fw.tgz", payload, file, reply)
        IN Commit([op |-> "upload", self |-> b, payload |-> payload,
                   file |-> file, reply |-> reply],
                  Effect(Heap, d.reqs, d.out), FALSE)

\* the proxies whose attribute attr was built by the make function
WithMethod(make) ==
    {pa \in (1..Len(proxies)) \X {"list", "create", "retrieve", "update",
                                  "delete", "reset", "version"} :
        /\ HasAttr(proxies[pa[1]].methods, pa[2])
        /\ Attr(proxies[pa[1]].methods, pa[2]).make = make}

\* proxy[key]
GetItem ==
    /\ ncalls < MaxCalls
    /\ \E p \in 1..Len(proxies), key \in ItemKeys :
        /\ proxies[p].getitem
        /\ LET child == make_getitem(Heap, p, key)
           IN Commit([op |-> "getitem", self |-> p, key |-> key],
                     Effect(child.H, <<>>, Return([t |-> "proxy", v |-> child.p])),
                     TRUE)

\* proxy.list(filter)
List ==
    /\ ncalls < MaxCalls
    /\ \E pa \in WithMethod("make_list"), filter \in Filters, reply \in ListReplies :
        \E replies \in [1..(IF filter.t = "null" THEN 0 ELSE Len(Listed(reply)))
                          -> RetrieveReplies] :
            Commit([op |-> "list", self |-> pa[1], filter |-> filter,
                    reply |-> reply, replies |-> replies],
                   make_list(Heap, pa[1], Attr(proxies[pa[1]].methods, "list").url,
                             filter, reply, replies),
                   FALSE)

\* proxy.create(key, data)
Create ==
    /\ ncalls < MaxCalls
    /\ \E pa \in WithMethod("make_create"), key \in {"abc"}, data \in Payloads,
       reply \in Replies :
        \E e \in {make_create(Heap, pa[1], Attr(proxies[pa[1]].methods, pa[2]).ub,
                                key, data, reply)} :
            Commit([op |-> "create", self |-> pa[1], key |-> key, data |-> data,
                    reply |-> reply],
                   e, e.out.kind = "return")

\* proxy.retrieve(key)
Retrieve ==
    /\ ncalls < MaxCalls
    /\ \E pa \in WithMethod("make_retrieve"), key \in {"abc"},
       reply \in {ReplyOk(JDict(<<<<"status", JStr("active")>>>>)), ReplyNotFound} :
        Commit([op |-> "retrieve", self |-> pa[1], key |-> key, reply |-> reply],
               make_retrieve(Heap, pa[1], Attr(proxies[pa[1]].methods, pa[2]).ub,
                             key, reply),
               FALSE)

\* proxy.update(key, data)
Update ==
    /\ ncalls < MaxCalls
    /\ \E pa \in WithMethod("make_update"), key \in {"abc"}, data \in Payloads,
       reply \in {ReplyOk(None)} :
        Commit([op |-> "update", self |-> pa[1], key |-> key, data |-> data,
                reply |-> reply],
               make_update(Heap, pa[1], Attr(proxies[pa[1]].methods, pa[2]).ub,
                           key, data, reply),
               FALSE)

\* proxy.delete(key)
Delete ==
    /\ ncalls < MaxCalls
    /\ \E pa \in WithMethod("make_delete"), key \in {"abc"}, reply \in Replies :
        Commit([op |-> "delete", self |-> pa[1], key |-> key, reply |-> reply],
               make_delete(Heap, pa[1], Attr(proxies[pa[1]].methods, pa[2]).ub,
                           key, reply),
               FALSE)

\* a generic GET method: proxy.<name>()
CallGet ==
    /\ ncalls < MaxCalls
    /\ \E pa \in WithMethod("make_get_method"),
       reply \in {ReplyOk(JDict(<<<<"status", JStr("active")>>>>)), ReplyNotFound} :
        Commit([op |-> "call_get", self |-> pa[1], attr |-> pa[2],
                reply |-> reply],
               make_get_method(Heap, Attr(proxies[pa[1]].methods, pa[2]).url, reply),
               FALSE)

\* a generic POST method: proxy.<name>(data)
CallPost ==
    /\ ncalls < MaxCalls
    /\ \E pa \in WithMethod("make_post_method"), data \in Payloads,
       reply \in {ReplyOk(None)} :
        Commit([op |-> "call_post", self |-> pa[1], attr |-> pa[2],
                data |-> data, reply |-> reply],
               make_post_method(Heap, Attr(proxies[pa[1]].methods, pa[2]).url,
                                data, reply),
               FALSE)

\* reading a property: proxy.<attr>
GetProperty ==
    /\ ncalls < MaxCalls
    /\ \E p \in 1..Len(proxies),
       reply \in {ReplyOk(JDict(<<<<"status", JStr("active")>>>>)),
                  ReplyOk(JDict(<<>>)), ReplyNotFound} :
        \E i \in 1..Len(proxies[p].props) :
            Commit([op |-> "getter", self |-> p, attr |-> proxies[p].props[i].attr,
                    reply |-> reply],
                   make_getter(Heap, p, proxies[p].props[i].attr, reply),
                   FALSE)

\* writing a property: proxy.<attr> = value
SetProperty ==
    /\ ncalls < MaxCalls
    /\ \E p \in 1..Len(proxies), value \in {JStr("active")}, reply \in Replies :
        \E i \in 1..Len(proxies[p].props) :
            Commit([op |-> "setter", self |-> p, attr |-> proxies[p].props[i].attr,
                    value |-> value, reply |-> reply],
                   make_setter(Heap, p, proxies[p].props[i].attr, value, reply),
                   FALSE)

Next ==
    \/ Extend
    \/ Url
    \/ Get
    \/ Post
    \/ Upload
    \/ GetItem
    \/ List
    \/ Create
    \/ Retrieve
    \/ Update
    \/ Delete
    \/ CallGet
    \/ CallPost
    \/ GetProperty
    \/ SetProperty

Spec == Init /\ [][Next]_vars

---------------------------------------------------------------------------
(* The compiler applied to every schema object node *)

MaxPathLen == 3

Chars_config == <<"c","o","n","f","i","g">>
Chars_sub == <<"s","u","b">>
Chars_leaf == <<"l","e","a","f">>

\* a path of n tags that ends with the node's own tag
PathTo(tag, n) ==
    [i \in 1..n |-> IF i = n THEN tag ELSE IF i = 1 THEN Chars_nsc ELSE Chars_sub]

\* the explicit singleton flag: absent, true or false
Flags == {<<>>, <<<<"singleton", JBool(TRUE)>>>>, <<<<"singleton", JBool(FALSE)>>>>}

Names == {<<>>, <<<<"name", [t |-> "str", v |-> <<"T","h","i","n","g">>]>>>>}

ObjectNodes ==
    {Node(tag, PathTo(tag, n), nm \o flag,
          IF nested
          THEN <<Node(Chars_leaf, Append(PathTo(tag, n), Chars_leaf), flag,
                      <<>>, <<>>, <<>>)>>
          ELSE <<>>,
          IF nested THEN <<ClassNode(<<"s","t","a","t","u","s">>, PathTo(tag, n))>>
          ELSE <<>>,
          IF methods THEN RestMethods(PathTo(tag, n)) ELSE <<>>) :
        tag \in {Chars_things, Chars_config}, n \in 1..MaxPathLen,
        nm \in Names, flag \in Flags, nested \in BOOLEAN, methods \in BOOLEAN}

InitCompile ==
    /\ schema_node \in ObjectNodes
    /\ compiled = Pending
    /\ LET ub == url_builder(Str(Host), 80, "http", None)
       IN builders = UrlBuilder__call__(<<ub>>, 1, <<"nsc">>)
    /\ proxies = <<>>
    /\ created = builders
    /\ ncalls = 0
    /\ call \in {[op |-> "compile_object", ub |-> i] : i \in 1..2}
    /\ log = <<>>
    /\ ret = Pending
    /\ NoInterpreter

\* compile_object(schema_node, ub)
CompileObject ==
    /\ compiled = Pending
    /\ \E c \in {compile_object(Heap, schema_node, call.ub)} :
          /\ builders' = c.H.bs
          /\ proxies' = c.H.px
          /\ created' = created \o SubSeq(c.H.bs, Len(builders) + 1, Len(c.H.bs))
          /\ compiled' = Return([t |-> "proxy", v |-> c.p])
    /\ UNCHANGED <<ncalls, call, log, ret, respVars, nameVars, schema_node>>

NextCompile == CompileObject

SpecCompile == InitCompile /\ [][NextCompile]_vars

---------------------------------------------------------------------------
(* Properties of the URL builder and of the compiled proxies (Spec) *)

ApiRoot == <<"SAFe", "sng_rest">>

\* the segments of the builder a proxy is bound to
SegmentsOf(p) == builders[proxies[p].ub].segments

C1_SameBuilder(a, b) ==
    a.base = b.base /\ a.segments = b.segments /\ a.timeout = b.timeout

\* C1: whatever calls were made, every builder still has the base, segments
\* and timeout it was created with; extend leaves the builder it is called
\* on alone and returns a new builder with the same base and timeout whose
\* segments are the old segments followed by the appended ones.
C1_ExtendFrame ==
    /\ Len(builders) = Len(created)
    /\ \A i \in 1..Len(builders) : C1_SameBuilder(builders[i], created[i])
    /\ call.op = "extend" =>
          /\ ret = Return([t |-> "builder", v |-> Len(builders)])
          /\ ret.value.v # call.self
          /\ builders[ret.value.v].segments =
                created[call.self].segments \o call.segments
          /\ builders[ret.value.v].base = created[call.self].base
          /\ builders[ret.value.v].timeout = created[call.self].timeout

C1_Witness ==
    /\ call.op = "extend"
    /\ ncalls = 2
    /\ created[call.self].segments = <<"nsc", "things">>
    /\ builders[call.self].segments = <<"nsc", "things">>
    /\ builders[ret.value.v].segments = <<"nsc", "things", "abc", "xyz">>

\* C2: indexing the collection things of the module nsc with a key issues
\* no request and gives a child proxy bound to nsc/things/<key>; retrieve()
\* on an indexed child issues exactly one request, a GET, whose path is the
\* API root, then api/retrieve, then nsc/things/<key>.
C2_IndexThenRetrieve ==
    /\ call.op = "getitem" =>
          /\ log = <<>>
          /\ ret.kind = "return"
          /\ proxies[ret.value.v].kind = "child"
          /\ ~proxies[ret.value.v].getitem
          /\ SegmentsOf(ret.value.v) = <<"nsc", "things", call.key>>
    /\ (call.op = "call_get" /\ call.attr = "retrieve") =>
          /\ Len(log) = 1
          /\ log[1].verb = "GET"
          /\ \E key \in ItemKeys :
                /\ SegmentsOf(call.self) = <<"nsc", "things", key>>
                /\ log[1].path = ApiRoot \o <<"api", "retrieve", "nsc", "things", key>>
                /\ log[1].url = "http://host.lan:80/SAFe/sng_rest/api/retrieve/nsc/things/"
                                   \o key

C2_Witness ==
    /\ call.op = "call_get"
    /\ call.attr = "retrieve"
    /\ SegmentsOf(call.self) = <<"nsc", "things", "abc">>
    /\ Len(log) = 1
    /\ log[1].url = "http://host.lan:80/SAFe/sng_rest/api/retrieve/nsc/things/abc"
    /\ ret = Return(JDict(<<<<"status", JStr("active")>>>>))

\* C2 as stated: retrieve() on the indexed child issues one GET whose path
\* ends in things/<key>/api/retrieve.
C2_AsStated ==
    (call.op = "call_get" /\ call.attr = "retrieve") =>
        /\ Len(log) = 1
        /\ log[1].verb = "GET"
        /\ \E key \in ItemKeys :
              /\ Len(log[1].path) >= 4
              /\ SubSeq(log[1].path, Len(log[1].path) - 3, Len(log[1].path)) =
                    <<"things", key, "api", "retrieve">>

C3_IsRecord(reply) ==
    /\ reply.status_code = 200
    /\ reply.body.t = "dict"
    /\ DictGet(reply.body, "data").t = "dict"

\* the record has every field of the filter, with the filter's value
C3_Equals(record, filter) ==
    \A i \in 1..Len(filter.v) :
        \E j \in 1..Len(record.v) : record.v[j] = filter.v[i]

\* the listed keys whose record equals the filter, in listing order
C3_Expected(keys, replies, filter) ==
    LET idx == SelectSeq([i \in 1..Len(keys) |-> i],
                         LAMBDA i : C3_Equals(DictGet(replies[i].body, "data"),
                                              filter))
    IN JList([j \in 1..Len(idx) |-> JStr(keys[idx[j]])])

\* C3: list on a collection proxy first issues one GET of the list URL.
\* Without a filter that is the only request, and the listing is returned
\* as it came.  With a filter the requests that follow are GETs of the
\* retrieve URL of the listed keys, one per key in listing order, and when
\* the listing and every record come back the call has issued all n of them
\* and returns the listed keys, in listing order, whose record equals the
\* filter on every filter field.
C3_ListFilter ==
    (call.op = "list" /\ proxies[call.self].getitem) =>
        LET keys == Listed(call.reply)
        IN /\ Len(log) >= 1
           /\ log[1].verb = "GET"
           /\ log[1].path = ApiRoot \o <<"api", "list">> \o SegmentsOf(call.self)
           /\ call.filter.t = "null" =>
                 /\ Len(log) = 1
                 /\ call.reply.status_code = 200 =>
                       ret = Return(DictGet(call.reply.body, "data"))
           /\ call.filter.t # "null" =>
                 /\ Len(log) <= 1 + Len(keys)
                 /\ \A i \in 2..Len(log) :
                       /\ log[i].verb = "GET"
                       /\ log[i].path = ApiRoot \o <<"api", "retrieve">>
                                           \o SegmentsOf(call.self) \o <<keys[i - 1]>>
                 /\ (/\ call.reply.status_code = 200
                     /\ \A i \in 1..Len(keys) : C3_IsRecord(call.replies[i])) =>
                       /\ Len(log) = 1 + Len(keys)
                       /\ ret = Return(C3_Expected(keys, call.replies, call.filter))

C3_Witness ==
    /\ call.op = "list"
    /\ proxies[call.self].getitem
    /\ call.filter = JDict(<<<<"kind", JStr("x")>>, <<"status", JStr("active")>>>>)
    /\ Listed(call.reply) = <<"xyz", "abc">>
    /\ DictGet(call.replies[1].body, "data") = JDict(<<<<"status", JStr("active")>>>>)
    /\ Len(log) = 3
    /\ ret = Return(JList(<<JStr("abc")>>))

\* C4 as stated: create(key, data) on a collection proxy issues exactly one
\* request, a POST of the create URL of the key alone with data as its JSON
\* body, and returns the child proxy bound to the collection's builder
\* extended by the key.
C4_CreateAsStated ==
    call.op = "create" =>
        /\ Len(log) = 1
        /\ log[1].verb = "POST"
        /\ log[1].path = ApiRoot \o <<"api", "create">> \o SegmentsOf(call.self)
                            \o <<call.key>>
        /\ log[1].data = (IF Truthy(call.data) THEN JStr(JsonDumps(call.data))
                          ELSE None)
        /\ ret.kind = "return" =>
              /\ proxies[ret.value.v].kind = "child"
              /\ SegmentsOf(ret.value.v) = SegmentsOf(call.self) \o <<call.key>>

RequestCalls ==
    {"get", "post", "upload", "list", "create", "retrieve", "update", "delete",
     "call_get", "call_post", "getter", "setter"}

\* C10: every call of a builder method and of a synthesized proxy method
\* performs at most one HTTP round trip, but for list with a filter, which
\* performs at most one and one more per listed key; extending a builder,
\* rendering a URL and indexing a collection perform none.
C10_RoundTrips ==
    /\ call.op \in RequestCalls =>
          IF call.op = "list" /\ call.filter.t # "null"
          THEN Len(log) <= 1 + Len(Listed(call.reply))
          ELSE Len(log) <= 1
    /\ call.op \in {"extend", "url", "getitem"} => log = <<>>

C10_Witness ==
    /\ call.op = "list"
    /\ call.filter = JDict(<<>>)
    /\ Len(Listed(call.reply)) = 2
    /\ Len(log) = 3
    /\ ret = Return(JList(<<JStr("xyz"), JStr("abc")>>))

\* C10 as stated: every call of a builder method and of a synthesized proxy
\* method performs at most one HTTP round trip.
C10_AsStated == call.op \in RequestCalls => Len(log) <= 1

---------------------------------------------------------------------------
(* Properties of the compiler (SpecCompile) *)

C8_ExplicitlySingleton ==
    /\ HasKey(schema_node.spec, "singleton")
    /\ DictGet(schema_node.spec, "singleton") = JBool(TRUE)

\* C8: compile_object extends the builder by the node's tag, leaving the
\* builder it was given alone, and produces a child proxy (no indexing
\* operator) exactly when the node's path has length 1 or its explicit
\* singleton flag is true, and a collection proxy (with an indexing
\* operator) otherwise.
C8_SingletonRule ==
    compiled # Pending =>
        LET p == proxies[compiled.value.v]
            single == Len(schema_node.path) = 1 \/ C8_ExplicitlySingleton
        IN /\ p.ub = 3
           /\ builders[p.ub].segments =
                 created[call.ub].segments \o <<Str(schema_node.tag)>>
           /\ builders[call.ub] = created[call.ub]
           /\ single => (p.kind = "child" /\ ~p.getitem)
           /\ ~single => (p.kind = "collection" /\ p.getitem)
           /\ Len(schema_node.path) = 1 => ~p.getitem
           /\ (Len(schema_node.path) = 2 /\ ~HasKey(schema_node.spec, "singleton"))
                 => p.getitem

C8_Witness ==
    /\ compiled # Pending
    /\ Len(schema_node.path) = 1
    /\ DictGet(schema_node.spec, "singleton") = JBool(FALSE)
    /\ proxies[compiled.value.v].kind = "child"
    /\ ~proxies[compiled.value.v].getitem
    /\ SegmentsOf(compiled.value.v) = <<"nsc", "things">>

=============================================================================
